---- MODULE Spec2Model ----
(***************************************************************************)
(* Model of the jobs screen, src/midterms/components/screens/Jobs.tsx:     *)
(* fetch on mount, client-side search, saved-jobs toggle and the           *)
(* application form with its validation and its auto-close timer.          *)
(*                                                                         *)
(* A JavaScript string is a sequence of one-character strings, so that     *)
(* toLowerCase, includes, trim and the two regular expressions are         *)
(* computed character by character as the engine computes them.            *)
(***************************************************************************)
EXTENDS Integers, Sequences, FiniteSets, TLC

VARIABLES
  pc,               \* "init" (constructed), "fetching" (awaiting), "done"
  response,         \* what the fetch settled with (NoResponse before)
  isLoading,
  jobs,
  filteredJobs,
  searchTerm,
  savedJobs,
  alerts,           \* the Alert.alert messages raised so far, in order
  modalVisible,
  selectedJob,
  name,
  email,
  contactNumber,
  whyHire,
  feedbackMessage,
  errors,
  timers            \* pending setTimeout callbacks, oldest first; each
                    \* carries whether the form session that scheduled it
                    \* is still the current one

vars == <<pc, response, isLoading, jobs, filteredJobs, searchTerm, savedJobs,
          alerts, modalVisible, selectedJob, name, email, contactNumber,
          whyHire, feedbackMessage, errors, timers>>

listVars == <<pc, response, isLoading, jobs, filteredJobs, searchTerm,
              savedJobs, alerts>>

fieldVars == <<name, email, contactNumber, whyHire>>

-----------------------------------------------------------------------------
(* Bounds of the model *)

\* longest array a response carries
MaxJobs == 2

\* most auto-close timers pending at once
MaxTimers == 2

-----------------------------------------------------------------------------
(* Characters and the string primitives the screen uses *)

LowerLetters ==
  {"a","b","c","d","e","f","g","h","i","j","k","l","m",
   "n","o","p","q","r","s","t","u","v","w","x","y","z"}

UpperLetters ==
  {"A","B","C","D","E","F","G","H","I","J","K","L","M",
   "N","O","P","Q","R","S","T","U","V","W","X","Y","Z"}

Letters == LowerLetters \cup UpperLetters

Digits == {"0","1","2","3","4","5","6","7","8","9"}

Whitespace == {" ", "\t", "\n"}

UpperToLower ==
  [c \in UpperLetters |->
     CASE c = "A" -> "a" [] c = "B" -> "b" [] c = "C" -> "c" [] c = "D" -> "d"
       [] c = "E" -> "e" [] c = "F" -> "f" [] c = "G" -> "g" [] c = "H" -> "h"
       [] c = "I" -> "i" [] c = "J" -> "j" [] c = "K" -> "k" [] c = "L" -> "l"
       [] c = "M" -> "m" [] c = "N" -> "n" [] c = "O" -> "o" [] c = "P" -> "p"
       [] c = "Q" -> "q" [] c = "R" -> "r" [] c = "S" -> "s" [] c = "T" -> "t"
       [] c = "U" -> "u" [] c = "V" -> "v" [] c = "W" -> "w" [] c = "X" -> "x"
       [] c = "Y" -> "y" [] c = "Z" -> "z"]

\* String.prototype.toLowerCase
ToLowerCase(s) ==
  [i \in 1..Len(s) |-> IF s[i] \in UpperLetters THEN UpperToLower[s[i]] ELSE s[i]]

\* String.prototype.includes: t occurs in s at some offset
Includes(s, t) ==
  \E k \in 0..(Len(s) - Len(t)) : SubSeq(s, k + 1, k + Len(t)) = t

RECURSIVE TrimStart(_)
TrimStart(s) ==
  IF s # <<>> /\ Head(s) \in Whitespace THEN TrimStart(Tail(s)) ELSE s

RECURSIVE TrimEnd(_)
TrimEnd(s) ==
  IF s # <<>> /\ s[Len(s)] \in Whitespace
    THEN TrimEnd(SubSeq(s, 1, Len(s) - 1))
    ELSE s

\* String.prototype.trim
Trim(s) == TrimEnd(TrimStart(s))

AllIn(s, lo, hi, class) == \A i \in lo..hi : s[i] \in class

-----------------------------------------------------------------------------
(* The two regular expressions of validateForm *)

EmailLocalChars == Letters \cup Digits \cup {".", "_", "%", "+", "-"}

EmailDomainChars == Letters \cup Digits \cup {".", "-"}

\* fewest letters after the last dot: {2,}
EmailTldMin == 2

\* /^[a-zA-Z0-9._%+-]+@[a-zA-Z0-9.-]+\.[a-zA-Z]{2,}$/.test(s)
EmailPatternTest(s) ==
  \E at \in 1..Len(s) : \E dot \in 1..Len(s) :
     /\ s[at] = "@"
     /\ s[dot] = "."
     /\ at >= 2
     /\ AllIn(s, 1, at - 1, EmailLocalChars)
     /\ dot >= at + 2
     /\ AllIn(s, at + 1, dot - 1, EmailDomainChars)
     /\ Len(s) - dot >= EmailTldMin
     /\ AllIn(s, dot + 1, Len(s), Letters)

ContactPrefix == <<"0", "9">>

\* digits after the prefix: \d{9}
ContactDigits == 9

\* the pattern without its end anchor: /^09\d{9}/
ContactPatternUnanchored(s) ==
  /\ Len(s) >= Len(ContactPrefix) + ContactDigits
  /\ SubSeq(s, 1, Len(ContactPrefix)) = ContactPrefix
  /\ AllIn(s, Len(ContactPrefix) + 1, Len(ContactPrefix) + ContactDigits, Digits)

\* /^09\d{9}$/.test(s)
ContactNumberPatternTest(s) ==
  /\ Len(s) = Len(ContactPrefix) + ContactDigits
  /\ SubSeq(s, 1, Len(ContactPrefix)) = ContactPrefix
  /\ AllIn(s, Len(ContactPrefix) + 1, Len(s), Digits)

-----------------------------------------------------------------------------
(* Messages *)

NoJobsAlert == "No jobs found in the response."

FetchFailedAlert == "Failed to fetch jobs."

NameRequired == "Name is required."

EmailRequired == "Email is required."

EmailInvalid == "Please enter a valid email address."

ContactRequired == "Contact number is required."

ContactInvalid == "Please enter a valid contact number (11 digits starting with 09)."

WhyHireRequired == "This field is required."

SuccessMessage == "Application submitted successfully!"

NoErrors == [name |-> "", email |-> "", contactNumber |-> "", whyHire |-> ""]

-----------------------------------------------------------------------------
(* validateForm *)

NameError(n) == IF Trim(n) = <<>> THEN NameRequired ELSE ""

EmailError(e) ==
  IF Trim(e) = <<>> THEN EmailRequired
  ELSE IF ~EmailPatternTest(e) THEN EmailInvalid
  ELSE ""

ContactError(c) ==
  IF Trim(c) = <<>> THEN ContactRequired
  ELSE IF ~ContactNumberPatternTest(c) THEN ContactInvalid
  ELSE ""

WhyHireError(w) == IF Trim(w) = <<>> THEN WhyHireRequired ELSE ""

\* validateForm returning at the first failed rule
FirstErrorOnly(n, e, c, w) ==
  IF NameError(n) # "" THEN [NoErrors EXCEPT !.name = NameError(n)]
  ELSE IF EmailError(e) # "" THEN [NoErrors EXCEPT !.email = EmailError(e)]
  ELSE IF ContactError(c) # "" THEN [NoErrors EXCEPT !.contactNumber = ContactError(c)]
  ELSE [NoErrors EXCEPT !.whyHire = WhyHireError(w)]

\* the formErrors object validateForm hands to setErrors
FormErrors(n, e, c, w) ==
  [name |-> NameError(n), email |-> EmailError(e),
   contactNumber |-> ContactError(c), whyHire |-> WhyHireError(w)]

\* validateForm's return value
FormIsValid(n, e, c, w) == FormErrors(n, e, c, w) = NoErrors

-----------------------------------------------------------------------------
(* Jobs, the search filter and the saved-jobs toggle *)

\* selectedJob before any Apply press (null)
NoJob == [id |-> 0, title |-> <<>>, companyName |-> <<>>]

\* filterJobs comparing against the term as typed
FilterJobsTermAsTyped(list, term) ==
  LET Matches(job) ==
        \/ Includes(ToLowerCase(job.title), term)
        \/ Includes(ToLowerCase(job.companyName), term)
  IN SelectSeq(list, Matches)

\* jobs.filter(...) of filterJobs: order kept, title or companyName matches
FilterJobs(list, term) ==
  LET Matches(job) ==
        \/ Includes(ToLowerCase(job.title), ToLowerCase(term))
        \/ Includes(ToLowerCase(job.companyName), ToLowerCase(term))
  IN SelectSeq(list, Matches)

\* prevSavedJobs.findIndex(savedJob => savedJob.id === job.id), 1-based, 0 for -1
FindIndex(list, job) ==
  IF \E i \in 1..Len(list) : list[i].id = job.id
    THEN CHOOSE i \in 1..Len(list) :
           /\ list[i].id = job.id
           /\ \A k \in 1..(i - 1) : list[k].id # job.id
    ELSE 0

\* the updater removing the last entry, not the one found
ToggleSavedDropsLast(prevSavedJobs, job) ==
  IF \E i \in 1..Len(prevSavedJobs) : prevSavedJobs[i].id = job.id
    THEN SubSeq(prevSavedJobs, 1, Len(prevSavedJobs) - 1)
    ELSE Append(prevSavedJobs, job)

\* the updater handleSaveJob hands to setSavedJobs
ToggleSaved(prevSavedJobs, job) ==
  LET jobIndex == FindIndex(prevSavedJobs, job)
  IN IF jobIndex >= 1
       THEN SubSeq(prevSavedJobs, 1, jobIndex - 1)
              \o SubSeq(prevSavedJobs, jobIndex + 1, Len(prevSavedJobs))
       ELSE Append(prevSavedJobs, job)

\* data.jobs.map(job => ({...job, id: uuid.v4()})): a fresh distinct id each
WithIds(list) ==
  [i \in 1..Len(list) |->
     [id |-> i, title |-> list[i].title, companyName |-> list[i].companyName]]

-----------------------------------------------------------------------------
(* What the remote source can answer *)

Titles == << <<"D","e","v">>, <<"Q","A">>, <<"a","d">> >>

Companies == << <<"A","b">>, <<"d","E">>, <<"Q">> >>

RawJob(i) ==
  [title |-> Titles[((i - 1) % Len(Titles)) + 1],
   companyName |-> Companies[((i - 1) % Len(Companies)) + 1]]

JobArrays == { [i \in 1..n |-> RawJob(i)] : n \in 0..MaxJobs }

NoResponse == [kind |-> "none", list |-> <<>>]

\* reject:       fetch() or response.json() rejects
\* null:         the body parses to a falsy value (null, 0, "", false)
\* noJobs:       an object without a jobs key
\* falsyJobs:    jobs is null, 0, "" or false
\* nonArrayJobs: jobs is truthy and no array (an object, a string, a number)
\* array:        jobs is an array of job records
Responses ==
  { [kind |-> k, list |-> <<>>] :
      k \in {"reject", "null", "noJobs", "falsyJobs", "nonArrayJobs"} }
  \cup { [kind |-> "array", list |-> l] : l \in JobArrays }

\* data && data.jobs
HasJobs(r) == r.kind \in {"array", "nonArrayJobs"}

\* the try block throws: the request or the parse failed, or data.jobs has no map
Throws(r) == r.kind = "reject" \/ r.kind = "nonArrayJobs"

-----------------------------------------------------------------------------
(* What the user can type *)

SearchTerms == { <<>>, <<"d","e">>, <<"q">> }

ValidName == <<"a">>

ValidEmail == <<"a","@","b",".","c","o">>

ValidContact == <<"0","9","1","7","1","2","3","4","5","6","7">>

ValidWhyHire == <<"h","i">>

\* the whole screen: each field empty or valid
NameTexts == { <<>>, ValidName }

EmailTexts == { <<>>, ValidEmail }

ContactTexts == { <<>>, ValidContact }

WhyHireTexts == { <<>>, ValidWhyHire }

-----
(* The screen *)

Init ==
  /\ pc = "init"
  /\ response = NoResponse
  /\ isLoading = FALSE
  /\ jobs = <<>>
  /\ filteredJobs = <<>>
  /\ searchTerm = <<>>
  /\ savedJobs = <<>>
  /\ alerts = <<>>
  /\ modalVisible = FALSE
  /\ selectedJob = NoJob
  /\ name = <<>>
  /\ email = <<>>
  /\ contactNumber = <<>>
  /\ whyHire = <<>>
  /\ feedbackMessage = ""
  /\ errors = NoErrors
  /\ timers = <<>>

\* the search box and the list are reachable: mounted, not under the modal
ScreenUsable == pc # "init" /\ ~modalVisible

\* the rows of the FlatList, which is replaced by the spinner while loading
RenderedJobs == IF isLoading THEN {} ELSE { filteredJobs[i] : i \in 1..Len(filteredJobs) }

\* the form's inputs and buttons are rendered
FormUsable == modalVisible /\ selectedJob # NoJob

\* useEffect(() => { fetchJobs() }, []): fetchJobs up to its first await
Mount ==
  /\ pc = "init"
  /\ pc' = "fetching"
  /\ isLoading' = TRUE
  /\ UNCHANGED <<response, jobs, filteredJobs, searchTerm, savedJobs, alerts,
                 modalVisible, selectedJob, name, email, contactNumber, whyHire,
                 feedbackMessage, errors, timers>>

\* fetchJobs clearing the flag at the end of its try block, with no finally
FetchSettlesNoFinally(r) ==
  /\ pc = "fetching"
  /\ pc' = "done"
  /\ response' = r
  /\ IF Throws(r)
       THEN /\ alerts' = Append(alerts, FetchFailedAlert)
            /\ UNCHANGED <<jobs, filteredJobs, isLoading>>
       ELSE /\ isLoading' = FALSE
            /\ IF HasJobs(r)
                 THEN /\ jobs' = WithIds(r.list)
                      /\ filteredJobs' = WithIds(r.list)
                      /\ UNCHANGED alerts
                 ELSE /\ alerts' = Append(alerts, NoJobsAlert)
                      /\ UNCHANGED <<jobs, filteredJobs>>
  /\ UNCHANGED <<searchTerm, savedJobs, modalVisible, selectedJob, name, email,
                 contactNumber, whyHire, feedbackMessage, errors, timers>>

\* fetchJobs from the settled request to the end of its finally block
FetchSettles(r) ==
  /\ pc = "fetching"
  /\ pc' = "done"
  /\ response' = r
  /\ IF Throws(r)
       THEN /\ alerts' = Append(alerts, FetchFailedAlert)
            /\ UNCHANGED <<jobs, filteredJobs>>
       ELSE IF HasJobs(r)
         THEN /\ jobs' = WithIds(r.list)
              /\ filteredJobs' = WithIds(r.list)
              /\ UNCHANGED alerts
         ELSE /\ alerts' = Append(alerts, NoJobsAlert)
              /\ UNCHANGED <<jobs, filteredJobs>>
  /\ isLoading' = FALSE
  /\ UNCHANGED <<searchTerm, savedJobs, modalVisible, selectedJob, name, email,
                 contactNumber, whyHire, feedbackMessage, errors, timers>>

FetchComplete(answers) == \E r \in answers : FetchSettles(r)

SearchChange(text) ==
  /\ searchTerm' = text
  /\ filteredJobs' = FilterJobs(jobs, text)
  /\ UNCHANGED <<pc, response, isLoading, jobs, savedJobs, alerts, modalVisible,
                 selectedJob, name, email, contactNumber, whyHire,
                 feedbackMessage, errors, timers>>

handleSearchChange(terms) == ScreenUsable /\ \E text \in terms : SearchChange(text)

handleSaveJob ==
  /\ ScreenUsable
  /\ \E job \in RenderedJobs : savedJobs' = ToggleSaved(savedJobs, job)
  /\ UNCHANGED <<pc, response, isLoading, jobs, filteredJobs, searchTerm, alerts,
                 modalVisible, selectedJob, name, email, contactNumber, whyHire,
                 feedbackMessage, errors, timers>>

handleApplyPress ==
  /\ ScreenUsable
  /\ \E job \in RenderedJobs : selectedJob' = job
  /\ modalVisible' = TRUE
  /\ feedbackMessage' = ""
  \* a new form session: the timers still pending belong to earlier ones
  /\ timers' = [i \in 1..Len(timers) |-> FALSE]
  /\ UNCHANGED <<listVars, name, email, contactNumber, whyHire, errors>>

setName(texts) ==
  /\ FormUsable
  /\ \E text \in texts : name' = text
  /\ UNCHANGED <<listVars, modalVisible, selectedJob, email, contactNumber,
                 whyHire, feedbackMessage, errors, timers>>

setEmail(texts) ==
  /\ FormUsable
  /\ \E text \in texts : email' = text
  /\ UNCHANGED <<listVars, modalVisible, selectedJob, name, contactNumber,
                 whyHire, feedbackMessage, errors, timers>>

setContactNumber(texts) ==
  /\ FormUsable
  /\ \E text \in texts : contactNumber' = text
  /\ UNCHANGED <<listVars, modalVisible, selectedJob, name, email, whyHire,
                 feedbackMessage, errors, timers>>

setWhyHire(texts) ==
  /\ FormUsable
  /\ \E text \in texts : whyHire' = text
  /\ UNCHANGED <<listVars, modalVisible, selectedJob, name, email,
                 contactNumber, feedbackMessage, errors, timers>>

\* the submit handler without its setName('')
SubmitKeepsName ==
  /\ FormUsable
  /\ IF FormIsValid(name, email, contactNumber, whyHire)
       THEN /\ Len(timers) < MaxTimers
            /\ feedbackMessage' = SuccessMessage
            /\ email' = <<>>
            /\ contactNumber' = <<>>
            /\ whyHire' = <<>>
            /\ errors' = NoErrors
            /\ timers' = Append(timers, TRUE)
            /\ UNCHANGED name
       ELSE /\ errors' = FormErrors(name, email, contactNumber, whyHire)
            /\ UNCHANGED <<name, email, contactNumber, whyHire,
                           feedbackMessage, timers>>
  /\ UNCHANGED <<listVars, modalVisible, selectedJob>>

handleSubmitApplication ==
  /\ FormUsable
  /\ IF FormIsValid(name, email, contactNumber, whyHire)
       THEN /\ Len(timers) < MaxTimers
            /\ feedbackMessage' = SuccessMessage
            /\ name' = <<>>
            /\ email' = <<>>
            /\ contactNumber' = <<>>
            /\ whyHire' = <<>>
            /\ errors' = NoErrors
            /\ timers' = Append(timers, TRUE)
       ELSE /\ errors' = FormErrors(name, email, contactNumber, whyHire)
            /\ UNCHANGED <<name, email, contactNumber, whyHire,
                           feedbackMessage, timers>>
  /\ UNCHANGED <<listVars, modalVisible, selectedJob>>

handleCloseModal ==
  /\ FormUsable
  /\ modalVisible' = FALSE
  /\ name' = <<>>
  /\ email' = <<>>
  /\ contactNumber' = <<>>
  /\ whyHire' = <<>>
  /\ errors' = NoErrors
  /\ feedbackMessage' = ""
  /\ UNCHANGED <<listVars, selectedJob, timers>>

\* the callback of setTimeout(..., 2000) runs
TimerFires ==
  /\ timers # <<>>
  /\ timers' = Tail(timers)
  /\ modalVisible' = FALSE
  /\ UNCHANGED <<listVars, selectedJob, name, email, contactNumber, whyHire,
                 feedbackMessage, errors>>

Next ==
  \/ Mount
  \/ FetchComplete(Responses)
  \/ handleSearchChange(SearchTerms)
  \/ handleSaveJob
  \/ handleApplyPress
  \/ setName(NameTexts)
  \/ setEmail(EmailTexts)
  \/ setContactNumber(ContactTexts)
  \/ setWhyHire(WhyHireTexts)
  \/ handleSubmitApplication
  \/ handleCloseModal
  \/ TimerFires

Spec == Init /\ [][Next]_vars

\* a settled request reaches fetchJobs' continuation, and a due timer runs
FairSpec == Spec /\ WF_vars(FetchComplete(Responses)) /\ WF_vars(TimerFires)

-----------------------------------------------------------------------------
(* The list alone: fetch, search and save over every short list of the pool *)

JobPool ==
  { [title |-> Titles[i], companyName |-> Companies[k]] :
      i \in {1, 2}, k \in {1, 2} }
  \cup { RawJob(i) : i \in 1..Len(Titles) }

AnyJobArrays == UNION { [1..n -> JobPool] : n \in 0..MaxJobs }

AnyResponses ==
  { [kind |-> k, list |-> <<>>] :
      k \in {"reject", "null", "noJobs", "falsyJobs", "nonArrayJobs"} }
  \cup { [kind |-> "array", list |-> l] : l \in AnyJobArrays }

AnySearchTerms ==
  { <<>>, <<"d","e">>, <<"q">>, <<"A">>, <<"D","E","V">>, <<"e","v">>,
    <<"a","b">>, <<"d","e","v","s">>, <<"x">>, <<" ">> }

ListNext ==
  \/ Mount
  \/ FetchComplete(AnyResponses)
  \/ handleSearchChange(AnySearchTerms)
  \/ handleSaveJob

ListSpec == Init /\ [][ListNext]_vars

ListFairSpec == ListSpec /\ WF_vars(FetchComplete(AnyResponses))

-----------------------------------------------------------------------------
(* The form alone, over texts that fail each rule in each way *)

DefaultResponse == [kind |-> "array", list |-> [i \in 1..MaxJobs |-> RawJob(i)]]

FormNameTexts == { <<>>, <<" ">>, ValidName }

FormEmailTexts == { <<>>, ValidEmail, <<"a","@","b">> }

FormContactTexts == { <<>>, ValidContact, Tail(ValidContact) }

FormWhyHireTexts == { <<>>, <<"\n">>, ValidWhyHire }

FormNext ==
  \/ Mount
  \/ FetchSettles(DefaultResponse)
  \/ handleApplyPress
  \/ setName(FormNameTexts)
  \/ setEmail(FormEmailTexts)
  \/ setContactNumber(FormContactTexts)
  \/ setWhyHire(FormWhyHireTexts)
  \/ handleSubmitApplication
  \/ handleCloseModal
  \/ TimerFires

FormSpec == Init /\ [][FormNext]_vars

FormFairSpec == FormSpec /\ WF_vars(TimerFires)

-----------------------------------------------------------------------------
(* The contact number rule, over the valid number and everything one edit    *)
(* away from it                                                             *)

EditChars == {"0", "9", "5", "a", " ", "+", "\n"}

Removed(s, i) == SubSeq(s, 1, i - 1) \o SubSeq(s, i + 1, Len(s))

Replaced(s, i, c) == [s EXCEPT ![i] = c]

Inserted(s, i, c) == SubSeq(s, 1, i) \o <<c>> \o SubSeq(s, i + 1, Len(s))

ContactCases ==
  { <<>>, <<" ">>, <<" ", "\t">>, <<"\n">>, ValidContact,
    Tail(ValidContact),
    SubSeq(ValidContact, 1, Len(ValidContact) - 2),
    Replaced(ValidContact, 2, "8"),
    ValidContact \o ValidContact }
  \cup { Removed(ValidContact, i) : i \in 1..Len(ValidContact) }
  \cup { Replaced(ValidContact, i, c) : i \in 1..Len(ValidContact), c \in EditChars }
  \cup { Inserted(ValidContact, i, c) : i \in 0..Len(ValidContact), c \in EditChars }

ContactNext ==
  \/ Mount
  \/ FetchSettles(DefaultResponse)
  \/ handleApplyPress
  \/ setContactNumber(ContactCases)
  \/ handleSubmitApplication
  \/ handleCloseModal

ContactSpec == Init /\ [][ContactNext]_vars

-----------------------------------------------------------------------------
(* Properties *)

Elements(list) == { list[i] : i \in 1..Len(list) }

Ids(list) == { list[i].id : i \in 1..Len(list) }

Lowered(c) == IF c \in UpperLetters THEN UpperToLower[c] ELSE c

\* t occurs in s when letter case is ignored
ContainsIgnoringCase(s, t) ==
  \E k \in 0..(Len(s) - Len(t)) :
     \A i \in 1..Len(t) : Lowered(s[k + i]) = Lowered(t[i])

JobMatches(job, t) ==
  ContainsIgnoringCase(job.title, t) \/ ContainsIgnoringCase(job.companyName, t)

\* f is list restricted to the jobs matching t, in list's order
IsMatchingSubList(f, list, t) ==
  LET pick == { i \in 1..Len(list) : JobMatches(list[i], t) }
  IN /\ Len(f) = Cardinality(pick)
     /\ \A n \in 1..Len(f) :
          \E i \in pick :
             /\ f[n] = list[i]
             /\ Cardinality({ k \in pick : k < i }) = n - 1

FormFieldsEmpty ==
  name = <<>> /\ email = <<>> /\ contactNumber = <<>> /\ whyHire = <<>>

FormEmpty == FormFieldsEmpty /\ errors = NoErrors /\ feedbackMessage = ""

\* C1: in every reachable state filteredJobs is exactly the sub-list of jobs
\* whose title or companyName contains searchTerm, case ignored.
C1_FilteredFollowsSearchTerm ==
  IsMatchingSubList(filteredJobs, jobs, searchTerm)

\* C2: whenever Apply opens the form, the four fields, the four error
\* messages and the feedback message are all empty.
C2_ApplyOpensEmptyForm ==
  [][(~modalVisible /\ modalVisible') => FormEmpty']_vars

\* C3: fetchJobs sets isLoading on invocation, every outcome of the fetch
\* leaves it false, and a raised flag is eventually cleared.
C3_LoadingRaisedThenCleared ==
  /\ [][(pc = "init" /\ pc' = "fetching") => isLoading']_vars
  /\ [][(pc = "fetching" /\ pc' = "done") => ~isLoading']_vars
  /\ [](pc = "done" => ~isLoading)
  /\ (isLoading ~> ~isLoading)

C3_FailedFetchCleared ==
  pc = "done" /\ response.kind = "reject" /\ ~isLoading /\ alerts # <<>>

\* C4: a response that parses but whose jobs field is absent, falsy or no
\* array leaves both lists unchanged, raises the 'No jobs found' alert and
\* no other, and leaves isLoading false.
C4_MalformedJobsRaiseNoJobsAlert ==
  [][(/\ pc = "fetching" /\ pc' = "done"
      /\ response'.kind \in {"noJobs", "falsyJobs", "nonArrayJobs"})
       => (/\ UNCHANGED <<jobs, filteredJobs>>
           /\ alerts' = Append(alerts, NoJobsAlert)
           /\ ~isLoading')]_vars

NonBlank(s) == \E i \in 1..Len(s) : s[i] \notin Whitespace

\* exactly 11 characters: '0', '9', then nine decimal digits
IsLocalMobileNumber(s) ==
  /\ Len(s) = 11
  /\ s[1] = "0"
  /\ s[2] = "9"
  /\ \A i \in 3..11 : s[i] \in Digits

NameOk == NonBlank(name)

EmailOk == NonBlank(email) /\ EmailPatternTest(email)

ContactOk == IsLocalMobileNumber(contactNumber)

WhyHireOk == NonBlank(whyHire)

AllFieldsOk == NameOk /\ EmailOk /\ ContactOk /\ WhyHireOk

\* C5: a submit with all four fields valid leaves, in that same step, the
\* fields and the errors empty and the success message shown on a modal that
\* is still visible; the modal is then eventually closed by the timer.
C5_ValidSubmitClearsThenCloses ==
  /\ [][(handleSubmitApplication /\ AllFieldsOk)
          => (/\ FormFieldsEmpty'
              /\ errors' = NoErrors
              /\ feedbackMessage' = SuccessMessage
              /\ modalVisible'
              /\ Len(timers') = Len(timers) + 1)]_vars
  /\ ((modalVisible /\ timers # <<>>) ~> ~modalVisible)

C5_SubmittedAndStillOpen ==
  /\ modalVisible
  /\ feedbackMessage = SuccessMessage
  /\ FormFieldsEmpty
  /\ errors = NoErrors
  /\ timers = <<TRUE>>

\* C6: a submit with some field invalid keeps the modal open, the typed
\* values and the feedback message, and sets a field's error message to a
\* non-empty one exactly when that field is invalid.
C6_InvalidSubmitShowsExactlyTheErrors ==
  [][(handleSubmitApplication /\ ~AllFieldsOk)
       => (/\ modalVisible'
           /\ UNCHANGED fieldVars
           /\ UNCHANGED <<feedbackMessage, timers>>
           /\ (errors'.name # "") <=> ~NameOk
           /\ (errors'.email # "") <=> ~EmailOk
           /\ (errors'.contactNumber # "") <=> ~ContactOk
           /\ (errors'.whyHire # "") <=> ~WhyHireOk)]_vars

\* two invalid fields flagged together beside two valid ones left clean
C6_TwoErrorsTwoClean ==
  /\ modalVisible
  /\ name = <<" ">> /\ errors.name = NameRequired
  /\ email = ValidEmail /\ errors.email = ""
  /\ contactNumber = Tail(ValidContact) /\ errors.contactNumber = ContactInvalid
  /\ whyHire = ValidWhyHire /\ errors.whyHire = ""

\* C7: toggling a job whose id is absent appends that job and changes nothing
\* else, and toggling the same job twice gives back the saved ids there were.
C7_SaveToggle ==
  /\ [](\A job \in Elements(jobs) :
          /\ (job.id \notin Ids(savedJobs))
               => ToggleSaved(savedJobs, job) = savedJobs \o <<job>>
          /\ Ids(ToggleSaved(ToggleSaved(savedJobs, job), job)) = Ids(savedJobs)
          /\ Len(ToggleSaved(ToggleSaved(savedJobs, job), job)) = Len(savedJobs))
  /\ [][handleSaveJob
          => (/\ UNCHANGED <<pc, response, isLoading, jobs, filteredJobs,
                             searchTerm, alerts, modalVisible, selectedJob, name,
                             email, contactNumber, whyHire, feedbackMessage,
                             errors, timers>>
              /\ \E job \in Elements(filteredJobs) :
                   IF job.id \in Ids(savedJobs)
                     THEN /\ Ids(savedJobs') = Ids(savedJobs) \ {job.id}
                          /\ Len(savedJobs') = Len(savedJobs) - 1
                     ELSE savedJobs' = savedJobs \o <<job>>)]_vars

C7_TwoSaved ==
  Len(savedJobs) = 2 /\ savedJobs[1].id = 2 /\ savedJobs[2].id = 1

\* C8: handleSearchChange(t) sets searchTerm to t and filteredJobs to the jobs
\* of the full list, in order, whose title or companyName contains t with
\* case ignored; the empty term gives the full list.
C8_SearchFilters ==
  [][\A t \in AnySearchTerms :
       (ScreenUsable /\ SearchChange(t))
         => (/\ searchTerm' = t
             /\ IsMatchingSubList(filteredJobs', jobs, t)
             /\ (t = <<>> => filteredJobs' = jobs))]_vars

C8_MixedCaseTermKeepsSome ==
  /\ pc = "done"
  /\ searchTerm = <<"D","E","V">>
  /\ Len(jobs) = 2
  /\ Len(filteredJobs) = 1
  /\ filteredJobs[1] = jobs[2]

\* C9: on submit contactNumber passes exactly when it is '0', '9' and nine
\* digits and nothing else; a blank value gets the 'required' message and
\* every other value the format message.
C9_ContactNumberRule ==
  [][handleSubmitApplication
       => errors'.contactNumber =
            (IF ~NonBlank(contactNumber) THEN ContactRequired
             ELSE IF IsLocalMobileNumber(contactNumber) THEN ""
             ELSE ContactInvalid)]_vars

C9_WrongPrefixRejected ==
  /\ contactNumber = <<"0","8","1","7","1","2","3","4","5","6","7">>
  /\ errors.contactNumber = ContactInvalid
  /\ errors.name = NameRequired

\* C10: a timer only closes the form session that scheduled it, and never a
\* modal holding text or errors entered after the successful submit.
C10_TimerClosesOnlyItsOwnSession ==
  [][(modalVisible /\ ~modalVisible' /\ Len(timers') < Len(timers))
       => (Head(timers) /\ FormFieldsEmpty /\ errors = NoErrors)]_vars

====
